---- MODULE Spec2Model ----
(***************************************************************************)
(* trace_titans: reconciliation of minting receipts against the titan      *)
(* (farming policy 2) reward schedule.  Model of src/src/main.rs and the   *)
(* receipt type of src/src/receipt.rs.                                     *)
(*                                                                         *)
(* Representation of machine integers.  u64 and i64 values do not fit the  *)
(* integers of the model checker, so an unsigned integer is a sequence of  *)
(* hexadecimal digits, least significant first, without leading zeros      *)
(* (<<>> is 0, <<0, 1>> is 16).  A u64 is such a sequence of at most 16    *)
(* digits, a u32 one of at most 8.  All arithmetic below is exact on       *)
(* these sequences; the width of the Rust type is applied where the code   *)
(* applies it (overflow check or wrap-around, narrowing cast).             *)
(***************************************************************************)
EXTENDS Integers, Sequences, FiniteSets, TLC

(***************************************************************************)
(* Exact arithmetic on digit sequences                                     *)
(***************************************************************************)
RECURSIVE Norm(_)
Norm(a) ==
    IF a = <<>> THEN <<>>
    ELSE IF a[Len(a)] = 0 THEN Norm(SubSeq(a, 1, Len(a) - 1))
    ELSE a

RECURSIVE FromInt(_)
FromInt(n) ==
    IF n = 0 THEN <<>> ELSE <<n % 16>> \o FromInt(n \div 16)

RECURSIVE ToInt(_)
ToInt(a) ==
    IF a = <<>> THEN 0 ELSE a[1] + 16 * ToInt(Tail(a))

Rest(a) == IF a = <<>> THEN <<>> ELSE Tail(a)

Low(a) == IF a = <<>> THEN 0 ELSE a[1]

IsZero(a) == a = <<>>

RECURSIVE AddCarry(_, _, _)
AddCarry(a, b, c) ==
    IF a = <<>> /\ b = <<>> THEN (IF c = 0 THEN <<>> ELSE <<c>>)
    ELSE LET s == Low(a) + Low(b) + c
         IN  <<s % 16>> \o AddCarry(Rest(a), Rest(b), s \div 16)

\* a sequence of at most seven digits is below 2^28 and is computed
\* as an integer; one of at most six digits is a factor or a divisor that
\* the digits of the other operand are combined with as integers
Small(a) == Len(a) <= 7

Short(a) == Len(a) <= 6

Add(a, b) ==
    IF Small(a) /\ Small(b) THEN FromInt(ToInt(a) + ToInt(b))
    ELSE Norm(AddCarry(a, b, 0))

\* a - b for a >= b
RECURSIVE SubBorrow(_, _, _)
SubBorrow(a, b, c) ==
    IF a = <<>> THEN <<>>
    ELSE LET s == Low(a) - Low(b) - c
         IN  IF s < 0 THEN <<s + 16>> \o SubBorrow(Rest(a), Rest(b), 1)
                      ELSE <<s>> \o SubBorrow(Rest(a), Rest(b), 0)

Sub(a, b) ==
    IF Small(a) /\ Small(b) THEN FromInt(ToInt(a) - ToInt(b))
    ELSE Norm(SubBorrow(a, b, 0))

\* a <= b, both without leading zeros
RECURSIVE LeqSameLen(_, _)
LeqSameLen(a, b) ==
    IF a = <<>> THEN TRUE
    ELSE IF a[Len(a)] # b[Len(b)] THEN a[Len(a)] < b[Len(b)]
    ELSE LeqSameLen(SubSeq(a, 1, Len(a) - 1), SubSeq(b, 1, Len(b) - 1))

Leq(a, b) ==
    IF Len(a) # Len(b) THEN Len(a) < Len(b) ELSE LeqSameLen(a, b)

Less(a, b) == ~Leq(b, a)

\* a * k for a small natural k (k < 2^27)
RECURSIVE MulSmallCarry(_, _, _)
MulSmallCarry(a, k, c) ==
    IF a = <<>> THEN FromInt(c)
    ELSE LET s == a[1] * k + c
         IN  <<s % 16>> \o MulSmallCarry(Tail(a), k, s \div 16)

MulSmall(a, k) == Norm(MulSmallCarry(a, k, 0))

\* schoolbook multiplication, from the most significant digit of b down
RECURSIVE MulFrom(_, _, _, _)
MulFrom(a, b, i, acc) ==
    IF i = 0 THEN acc
    ELSE LET shifted == IF acc = <<>> THEN <<>> ELSE <<0>> \o acc
             next    == Add(shifted, MulSmall(a, b[i]))
         IN  IF next = <<>> THEN MulFrom(a, b, i - 1, <<>>)
                            ELSE MulFrom(a, b, i - 1, next)

Mul(a, b) ==
    IF Len(a) + Len(b) <= 7 THEN FromInt(ToInt(a) * ToInt(b))
    ELSE IF Short(b) THEN MulSmall(a, ToInt(b))
    ELSE IF Short(a) THEN MulSmall(b, ToInt(a))
    ELSE MulFrom(a, b, Len(b), <<>>)

\* the largest digit d with b * d <= cur, for cur < 16 * b, found bit by bit
RECURSIVE QuotientDigit(_, _, _, _)
QuotientDigit(b, cur, d, bit) ==
    IF bit = 0 THEN d
    ELSE IF Leq(MulSmall(b, d + bit), cur)
         THEN QuotientDigit(b, cur, d + bit, bit \div 2)
         ELSE QuotientDigit(b, cur, d, bit \div 2)

\* quotient and remainder of a by b, b # 0 (long division, from the most
\* significant digit of a down, one digit a step)
RECURSIVE DivModFrom(_, _, _, _, _)
DivModFrom(a, b, i, q, r) ==
    IF i = 0 THEN [q |-> q, r |-> r]
    ELSE LET cur == Norm(<<a[i]>> \o r)
             d   == IF Less(cur, b) THEN 0 ELSE QuotientDigit(b, cur, 0, 8)
             rem == IF d = 0 THEN cur ELSE Sub(cur, MulSmall(b, d))
         IN  IF rem = <<>> THEN DivModFrom(a, b, i - 1, <<d>> \o q, <<>>)
                           ELSE DivModFrom(a, b, i - 1, <<d>> \o q, rem)

\* long division by a natural k < 2^24, the remainder kept as an integer
RECURSIVE DivModShort(_, _, _, _, _)
DivModShort(a, k, i, q, r) ==
    IF i = 0 THEN [q |-> q, r |-> FromInt(r)]
    ELSE LET cur == 16 * r + a[i]
         IN  IF cur < k THEN DivModShort(a, k, i - 1, <<0>> \o q, cur)
                        ELSE DivModShort(a, k, i - 1, <<cur \div k>> \o q, cur % k)

DivMod(a, b) ==
    IF Small(a) /\ Small(b)
    THEN [q |-> FromInt(ToInt(a) \div ToInt(b)), r |-> FromInt(ToInt(a) % ToInt(b))]
    ELSE IF Short(b) THEN DivModShort(a, ToInt(b), Len(a), <<>>, 0)
    ELSE DivModFrom(a, b, Len(a), <<>>, <<>>)

Div(a, b) == Norm(DivMod(a, b).q)

Mod(a, b) == DivMod(a, b).r

RECURSIVE Zeros(_)
Zeros(n) == IF n = 0 THEN <<>> ELSE <<0>> \o Zeros(n - 1)

\* 2^(4n)
Pow16(n) == Zeros(n) \o <<1>>

\* the low n digits: a mod 2^(4n)
LowDigits(a, n) == Norm(IF Len(a) <= n THEN a ELSE SubSeq(a, 1, n))

\* F applied to the value of e, which is computed once
Bind(e, F(_)) == CHOOSE r \in {F(w) : w \in {e}} : TRUE

(***************************************************************************)
(* Machine integers                                                        *)
(***************************************************************************)
U64Digits == 16
U32Digits == 8

FitsU64(a) == Len(a) <= U64Digits

U64_MAX == Sub(Pow16(U64Digits), <<1>>)

\* 2^63, the magnitude of i64::MIN
I64_MIN_MAG == Zeros(U64Digits - 1) \o <<8>>

\* The two build profiles: arithmetic overflow panics when overflow checks
\* are compiled in (debug) and wraps when they are not (release).
Builds == {"debug", "release"}

\* An outcome of a computation: a value, or the panic that ended it.
Ok(v) == [panic |-> "", v |-> v]

Panic(msg) == [panic |-> msg, v |-> <<>>]

IsOk(o) == o.panic = ""

\* `as u32` on a u64 (main.rs:95): keeps the low 32 bits
as_u32(a) == LowDigits(a, U32Digits)

\* u64 + u64
AddU64(x, y, build) ==
    IF ~IsOk(x) THEN x
    ELSE IF ~IsOk(y) THEN y
    ELSE LET s == Add(x.v, y.v)
         IN  IF FitsU64(s) THEN Ok(s)
             ELSE IF build = "debug" THEN Panic("attempt to add with overflow")
             ELSE Ok(LowDigits(s, U64Digits))

\* u64 * u64
MulU64(x, y, build) ==
    IF ~IsOk(x) THEN x
    ELSE IF ~IsOk(y) THEN y
    ELSE LET p == Mul(x.v, y.v)
         IN  IF FitsU64(p) THEN Ok(p)
             ELSE IF build = "debug" THEN Panic("attempt to multiply with overflow")
             ELSE Ok(LowDigits(p, U64Digits))

\* u64 / u64: a zero divisor panics in every build
DivU64(x, y) ==
    IF ~IsOk(x) THEN x
    ELSE IF ~IsOk(y) THEN y
    ELSE IF IsZero(y.v) THEN Panic("attempt to divide by zero")
    ELSE Ok(Div(x.v, y.v))

(***************************************************************************)
(* Decimal rendering ({} and {:0w} of format!)                             *)
(***************************************************************************)
DigitChar(d) ==
    CASE d = 0 -> "0" [] d = 1 -> "1" [] d = 2 -> "2" [] d = 3 -> "3"
      [] d = 4 -> "4" [] d = 5 -> "5" [] d = 6 -> "6" [] d = 7 -> "7"
      [] d = 8 -> "8" [] d = 9 -> "9"

\* the decimal digits of a natural number below 2^31
RECURSIVE DecimalInt(_)
DecimalInt(n) ==
    IF n < 10 THEN DigitChar(n)
    ELSE DecimalInt(n \div 10) \o DigitChar(n % 10)

\* left padding with zeros up to width w
RECURSIVE ZeroPad(_, _)
ZeroPad(s, w) == IF Len(s) < w THEN ZeroPad("0" \o s, w) ELSE s

\* the decimal digits of a digit sequence, seven decimal digits a step
RECURSIVE Decimal(_)
Decimal(a) ==
    IF Len(a) <= 6 THEN DecimalInt(ToInt(a))
    ELSE Bind(DivMod(a, FromInt(10000000)), LAMBDA qr :
             Decimal(Norm(qr.q)) \o ZeroPad(DecimalInt(ToInt(qr.r)), 7))

\* {} of an unsigned integer
Display(a) == Decimal(a)

\* {:0w} of an unsigned integer
DisplayPadded(a, w) == ZeroPad(Display(a), w)

\* An i64 is a sign and a magnitude; zero is not negative.
I64(neg, mag) == [neg |-> neg /\ mag # <<>>, mag |-> mag]

\* {} of an i64
DisplayI64(x) == IF x.neg THEN "-" \o Display(x.mag) ELSE Display(x.mag)

\* {:0w} of an i64: the sign counts towards the width
DisplayPaddedI64(x, w) ==
    IF x.neg THEN "-" \o ZeroPad(Display(x.mag), w - 1)
    ELSE ZeroPad(Display(x.mag), w)

\* i64 from the bits of a u64 (`as i64`, main.rs:126)
as_i64(a) ==
    IF Less(a, I64_MIN_MAG) THEN I64(FALSE, a)
    ELSE I64(TRUE, Sub(Pow16(U64Digits), a))

\* the exact difference x - y of two i64
ExactSubI64(x, y) ==
    IF x.neg # y.neg THEN I64(x.neg, Add(x.mag, y.mag))
    ELSE IF Leq(y.mag, x.mag) THEN I64(x.neg, Sub(x.mag, y.mag))
    ELSE I64(~x.neg, Sub(y.mag, x.mag))

FitsI64(x) ==
    IF x.neg THEN Leq(x.mag, I64_MIN_MAG) ELSE Less(x.mag, I64_MIN_MAG)

\* two's complement wrap-around of a value in (-2^64, 2^64) that left i64
WrapI64(x) ==
    IF FitsI64(x) THEN x ELSE I64(~x.neg, Sub(Pow16(U64Digits), x.mag))

\* i64 - i64
SubI64(x, y, build) ==
    LET d == ExactSubI64(x, y)
    IN  IF FitsI64(d) THEN Ok(d)
        ELSE IF build = "debug" THEN Panic("attempt to subtract with overflow")
        ELSE Ok(WrapI64(d))

\* i64::abs: the magnitude of i64::MIN is no i64
AbsI64(x, build) ==
    IF x.neg /\ x.mag = I64_MIN_MAG
    THEN IF build = "debug" THEN Panic("attempt to negate with overflow")
         ELSE Ok(x)
    ELSE Ok(I64(FALSE, x.mag))

\* i64 / i64 and i64 % i64 by a positive divisor: the quotient truncates
\* towards zero, the remainder has the sign of the dividend
DivI64(x, k) == I64(x.neg, Div(x.mag, k))

RemI64(x, k) == I64(x.neg, Mod(x.mag, k))

(***************************************************************************)
(* f64 quantities.  A finite f64 is a sign and a fraction num/den of digit *)
(* sequences; the inputs used below have a power of two as denominator and *)
(* a numerator short enough for the product with TFT_PRECISION to be       *)
(* exact in f64.                                                           *)
(***************************************************************************)
F64(neg, num, den) == [neg |-> neg, num |-> FromInt(num), den |-> FromInt(den)]

\* f64 * (u64 as f64)
MulF64(f, k) == [neg |-> f.neg, num |-> Mul(f.num, k), den |-> f.den]

\* `as u64` on an f64: truncates towards zero and saturates
as_u64(f) ==
    IF f.neg THEN <<>>
    ELSE LET t == Div(f.num, f.den)
         IN  IF FitsU64(t) THEN t ELSE U64_MAX

(***************************************************************************)
(* Constants of the program                                                *)
(***************************************************************************)
DIR_NAMES == <<"52", "53", "54", "55", "56", "57">>

TFT_PRECISION == 10000000

CERTIFIED_NODE_TYPE == "CERTIFIED"

PERCENTAGE_PRECISION == 1000

\* crate::period::STANDARD_PERIOD_DURATION, the length of a period in
\* seconds; a fixed positive constant
STANDARD_PERIOD_DURATION == 2630880

TITAN_RESOURCE_REWARDS == [cu |-> 3000, su |-> 1250, nu |-> 38, ipv4 |-> 6]

\* u32::from_str_radix(dir_name, 10) on the directory names
from_str_radix(name) == CHOOSE n \in 0..99 : Display(FromInt(n)) = name

\* main.rs:71: the period of each directory
PeriodOfDir == [i \in DOMAIN DIR_NAMES |-> from_str_radix(DIR_NAMES[i])]

(***************************************************************************)
(* NodePeriodResult and NodeResult                                         *)
(***************************************************************************)
\* #[derive(Default)] of NodePeriodResult
DefaultNodePeriodResult ==
    [farming_policy    |-> 0,
     uptime_percentage |-> 0,
     expected_payout   |-> <<>>,
     actual_payout     |-> <<>>,
     is_certified      |-> FALSE]

C7_Mutant_is_titan(r) == r.farming_policy = 2 \/ r.is_certified

NodePeriodResult_is_titan(r) ==
    r.farming_policy = 2 \/ (r.farming_policy = 1 /\ r.is_certified)

\* the six slots in the order of IntoIterator for &NodeResult
Slots(result) ==
    <<result.p52, result.p53, result.p54, result.p55, result.p56, result.p57>>

C6_Mutant_is_titan(result) ==
    \/ NodePeriodResult_is_titan(result.p52)
    \/ NodePeriodResult_is_titan(result.p53)
    \/ NodePeriodResult_is_titan(result.p54)
    \/ NodePeriodResult_is_titan(result.p55)
    \/ NodePeriodResult_is_titan(result.p56)

NodeResult_is_titan(result) ==
    \/ NodePeriodResult_is_titan(result.p52)
    \/ NodePeriodResult_is_titan(result.p53)
    \/ NodePeriodResult_is_titan(result.p54)
    \/ NodePeriodResult_is_titan(result.p55)
    \/ NodePeriodResult_is_titan(result.p56)
    \/ NodePeriodResult_is_titan(result.p57)

(***************************************************************************)
(* Reward calculation and formatting                                       *)
(***************************************************************************)
\* (quantity * TFT_PRECISION as f64) as u64 * rate
ScaledTerm(quantity, rate, build) ==
    MulU64(Ok(as_u64(MulF64(quantity, FromInt(TFT_PRECISION)))),
           Ok(FromInt(rate)), build)

calculate_expected_titan_reward(receipt, build) ==
    LET full_musd_reward_upscaled ==
            AddU64(AddU64(AddU64(
                ScaledTerm(receipt.cloud_units.cu, TITAN_RESOURCE_REWARDS.cu, build),
                ScaledTerm(receipt.cloud_units.su, TITAN_RESOURCE_REWARDS.su, build),
                build),
                ScaledTerm(receipt.cloud_units.nu, TITAN_RESOURCE_REWARDS.nu, build),
                build),
                ScaledTerm(receipt.resource_utilization.ip,
                           TITAN_RESOURCE_REWARDS.ipv4, build),
                build)
        full_tft_reward ==
            DivU64(full_musd_reward_upscaled, Ok(receipt.tft_connection_price))
    IN  DivU64(MulU64(full_tft_reward, Ok(receipt.measured_uptime), build),
               Ok(FromInt(STANDARD_PERIOD_DURATION)))

\* main.rs:93-97: the uptime percentage of a receipt, as a u32
uptime_percentage(receipt, build) ==
    LET scaled == MulU64(MulU64(Ok(receipt.measured_uptime), Ok(FromInt(100)), build),
                         Ok(FromInt(PERCENTAGE_PRECISION)), build)
        ratio  == DivU64(scaled, Ok(FromInt(STANDARD_PERIOD_DURATION)))
        cap    == FromInt(100 * PERCENTAGE_PRECISION)
    IN  IF ~IsOk(ratio) THEN ratio
        ELSE IF Leq(as_u32(ratio.v), cap) THEN Ok(ToInt(as_u32(ratio.v)))
        ELSE Ok(ToInt(cap))

format_tft(amount) ==
    Bind(DivMod(amount, FromInt(TFT_PRECISION)), LAMBDA qr :
        Display(Norm(qr.q)) \o "." \o DisplayPadded(qr.r, 7))

format_diff_tft(amount, build) ==
    LET abs == AbsI64(amount, build)
    IN  IF ~IsOk(abs) THEN abs
        ELSE Ok(DisplayI64(DivI64(amount, FromInt(TFT_PRECISION)))
                    \o "." \o DisplayPaddedI64(RemI64(abs.v, FromInt(TFT_PRECISION)), 7))

format_percentage(p) ==
    Display(FromInt(p \div PERCENTAGE_PRECISION))
        \o "." \o Display(FromInt(p % PERCENTAGE_PRECISION)) \o "%"

(***************************************************************************)
(* Receipts                                                                *)
(***************************************************************************)
\* The fields of receipt::MintingReceipt that main reads.
MintingReceipt(node_id, farming_policy_id, node_type, measured_uptime, tft_connection_price, usage, tft) ==
    [node_id              |-> node_id,
     measured_uptime      |-> measured_uptime,
     tft_connection_price |-> tft_connection_price,
     cloud_units          |-> [cu |-> usage.cu, su |-> usage.su, nu |-> usage.nu],
     resource_utilization |-> [ip |-> usage.ip],
     reward               |-> [tft |-> tft],
     node_type            |-> node_type,
     farming_policy_id    |-> farming_policy_id]

\* BTreeMap::new(), BTreeMap::insert and the lookup of an absent key
EmptyMap == <<>>

Put(m, k, v) == [j \in DOMAIN m \cup {k} |-> IF j = k THEN v ELSE m[j]]

\* the first key in the iteration order of a BTreeMap
First(keys) == CHOOSE k \in keys : \A j \in keys : k <= j

(***************************************************************************)
(* main: aggregation                                                       *)
(***************************************************************************)
\* main.rs:91-101: the struct expression, fields evaluated in order
NodePeriodResultOf(receipt, build) ==
    Bind(uptime_percentage(receipt, build), LAMBDA uptime :
        IF ~IsOk(uptime) THEN uptime
        ELSE Bind(calculate_expected_titan_reward(receipt, build), LAMBDA expected :
            IF ~IsOk(expected) THEN expected
            ELSE Ok([farming_policy    |-> receipt.farming_policy_id,
                     uptime_percentage |-> uptime.v,
                     expected_payout   |-> expected.v,
                     actual_payout     |-> receipt.reward.tft,
                     is_certified      |-> receipt.node_type = CERTIFIED_NODE_TYPE])))

\* main.rs:88-103: the loop over one node's (period, receipt) pairs
RECURSIVE InsertAll(_, _, _, _)
InsertAll(receipts, i, receipts_parsed, build) ==
    IF i > Len(receipts) THEN Ok(receipts_parsed)
    ELSE Bind(NodePeriodResultOf(receipts[i][2], build), LAMBDA r :
             IF ~IsOk(r) THEN r
             ELSE Bind(Put(receipts_parsed, receipts[i][1], r.v), LAMBDA inserted :
                      InsertAll(receipts, i + 1, inserted, build)))

\* receipts_parsed.remove(&period).unwrap_or_default()
RemoveOrDefault(receipts_parsed, period) ==
    IF period \in DOMAIN receipts_parsed THEN receipts_parsed[period]
    ELSE DefaultNodePeriodResult

C10_Mutant_NodeResultOf(receipts_parsed) ==
    [p52 |-> RemoveOrDefault(receipts_parsed, 52),
     p53 |-> RemoveOrDefault(receipts_parsed, 53),
     p54 |-> RemoveOrDefault(receipts_parsed, 54),
     p55 |-> RemoveOrDefault(receipts_parsed, 55),
     p56 |-> RemoveOrDefault(receipts_parsed, 57),
     p57 |-> RemoveOrDefault(receipts_parsed, 56)]

NodeResultOf(receipts_parsed) ==
    [p52 |-> RemoveOrDefault(receipts_parsed, 52),
     p53 |-> RemoveOrDefault(receipts_parsed, 53),
     p54 |-> RemoveOrDefault(receipts_parsed, 54),
     p55 |-> RemoveOrDefault(receipts_parsed, 55),
     p56 |-> RemoveOrDefault(receipts_parsed, 56),
     p57 |-> RemoveOrDefault(receipts_parsed, 57)]

(***************************************************************************)
(* main: report                                                            *)
(***************************************************************************)
Header ==
    <<"node_id",
      "p52 titan", "p52 uptime", "p52 expected TFT", "p52 received TFT",
      "p53 titan", "p53 uptime", "p53 expected TFT", "p53 received TFT",
      "p54 titan", "p54 uptime", "p54 expected TFT", "p54 received TFT",
      "p55 titan", "p55 uptime", "p55 expected TFT", "p55 received TFT",
      "p56 titan", "p56 uptime", "p56 expected TFT", "p56 received TFT",
      "p57 titan", "p57 uptime", "p57 expected TFT", "p57 received TFT",
      "Total expected TFT", " Total received TFT", "Difference (to send)">>

\* {} of a bool
DisplayBool(b) == IF b THEN "true" ELSE "false"

\* Iterator::sum over u64
RECURSIVE SumFrom(_, _, _, _)
SumFrom(amounts, i, acc, build) ==
    IF i > Len(amounts) \/ ~IsOk(acc) THEN acc
    ELSE SumFrom(amounts, i + 1, AddU64(acc, Ok(amounts[i]), build), build)

SumU64(amounts, build) == SumFrom(amounts, 1, Ok(<<>>), build)

\* the four columns of one period
PeriodColumns(r) ==
    <<DisplayBool(NodePeriodResult_is_titan(r)),
      format_percentage(r.uptime_percentage),
      format_tft(r.expected_payout),
      format_tft(r.actual_payout)>>

\* main.rs:124-135: the line of one node, a sequence of columns
Row(node_id, result, build) ==
    Bind(SumU64([i \in 1..6 |-> Slots(result)[i].expected_payout], build),
         LAMBDA total_expected :
    IF ~IsOk(total_expected) THEN total_expected ELSE
    Bind(SumU64([i \in 1..6 |-> Slots(result)[i].actual_payout], build),
         LAMBDA total_received :
    IF ~IsOk(total_received) THEN total_received ELSE
    Bind(SubI64(as_i64(total_expected.v), as_i64(total_received.v), build),
         LAMBDA difference :
    IF ~IsOk(difference) THEN difference ELSE
    Bind(format_diff_tft(difference.v, build),
         LAMBDA diff_text :
    IF ~IsOk(diff_text) THEN diff_text
    ELSE Ok(<<Display(FromInt(node_id))>>
            \o PeriodColumns(result.p52) \o PeriodColumns(result.p53)
            \o PeriodColumns(result.p54) \o PeriodColumns(result.p55)
            \o PeriodColumns(result.p56) \o PeriodColumns(result.p57)
            \o <<format_tft(total_expected.v), format_tft(total_received.v),
                 diff_text.v>>)))))

(***************************************************************************)
(* Bounds and inputs                                                       *)
(***************************************************************************)
\* the number of receipt files the run reads, over all directories
MaxFiles == 2

\* the largest farming policy identifier given to the tier predicate
MaxPolicy == 4

NoUsage ==
    [cu |-> F64(FALSE, 0, 1), su |-> F64(FALSE, 0, 1),
     nu |-> F64(FALSE, 0, 1), ip |-> F64(FALSE, 0, 1)]

SomeUsage ==
    [cu |-> F64(FALSE, 3, 256), su |-> F64(FALSE, 1, 256),
     nu |-> F64(FALSE, 0, 1), ip |-> F64(FALSE, 1, 1)]

FullUptime == FromInt(STANDARD_PERIOD_DURATION)

HalfUptime == FromInt(STANDARD_PERIOD_DURATION \div 2)

\* 112996093318 seconds, some 42950 periods: the least uptime whose
\* percentage is 2^32 + 25000 before the narrowing to u32
WrappingUptime == Add(Mul(FromInt(112996), FromInt(1000000)), FromInt(93318))

\* The receipt files the directories may hold.
Receipts ==
    { MintingReceipt(1, 2, "DIY", FullUptime, FromInt(50), SomeUsage, FromInt(9207770)),
      MintingReceipt(1, 2, "DIY", FullUptime, <<>>, SomeUsage, <<>>),
      MintingReceipt(1, 1, "CERTIFIED", WrappingUptime, FromInt(50), NoUsage, <<>>),
      MintingReceipt(1, 2, "DIY", I64_MIN_MAG, FromInt(50), NoUsage, <<>>),
      MintingReceipt(2, 2, "DIY", FullUptime, FromInt(50), NoUsage, I64_MIN_MAG),
      MintingReceipt(2, 3, "CERTIFIED", HalfUptime, FromInt(50), SomeUsage, <<1>>) }

(***************************************************************************)
(* State                                                                   *)
(***************************************************************************)
VARIABLES
    build,          \* the build profile of the binary
    pc,             \* "read", "aggregate", "report" or "done"
    dir_idx,        \* the index in DIR_NAMES of the directory being read
    n_read,         \* the number of files read so far
    node_receipts,  \* node id -> sequence of <<period, receipt>>
    todo,           \* the keys the running for loop has not visited yet
    node_results,   \* node id -> NodeResult
    stdout,         \* the lines printed, each a sequence of columns
    exit,           \* how the process ended: kind "running"/"ok"/"err"/"panic"
    call,           \* a call of one function on its own, or NoCall
    ret             \* what that call returned, or Pending

vars == <<build, pc, dir_idx, n_read, node_receipts, todo, node_results,
          stdout, exit, call, ret>>

main_vars == <<build, pc, dir_idx, n_read, node_receipts, todo, node_results,
               stdout, exit>>

NoCall == [fn |-> "none"]

Pending == [panic |-> "pending", v |-> <<>>]

Running == [kind |-> "running", msg |-> ""]

Init ==
    /\ build \in Builds
    /\ pc = "read"
    /\ dir_idx = 1
    /\ n_read = 0
    /\ node_receipts = EmptyMap
    /\ todo = {}
    /\ node_results = EmptyMap
    /\ stdout = <<>>
    /\ exit = Running
    /\ call = NoCall
    /\ ret = Pending

(***************************************************************************)
(* main.rs:70-81: reading the receipts                                     *)
(***************************************************************************)
ReadEntry(receipt) ==
    /\ pc = "read"
    /\ n_read < MaxFiles
    /\ LET period == PeriodOfDir[dir_idx]
           old    == IF receipt.node_id \in DOMAIN node_receipts
                     THEN node_receipts[receipt.node_id] ELSE <<>>
       IN  node_receipts' =
               Put(node_receipts, receipt.node_id, Append(old, <<period, receipt>>))
    /\ n_read' = n_read + 1
    /\ UNCHANGED <<build, pc, dir_idx, todo, node_results, stdout, exit, call, ret>>

\* a `?` of the reading loop (fs::read_dir, the directory entry, File::open,
\* serde_json::from_reader) returns its error from main; the entry that
\* cannot be read is one of the files of the run
ReadFails ==
    /\ pc = "read"
    /\ n_read < MaxFiles
    /\ exit' = [kind |-> "err", msg |-> "cannot read receipt"]
    /\ pc' = "done"
    /\ UNCHANGED <<build, dir_idx, n_read, node_receipts, todo, node_results,
                   stdout, call, ret>>

\* the directory has no more entries
EndOfDir ==
    /\ pc = "read"
    /\ IF dir_idx < Len(DIR_NAMES)
       THEN /\ dir_idx' = dir_idx + 1
            /\ UNCHANGED <<pc, todo>>
       ELSE /\ pc' = "aggregate"
            /\ todo' = DOMAIN node_receipts
            /\ UNCHANGED dir_idx
    /\ UNCHANGED <<build, n_read, node_receipts, node_results, stdout, exit, call, ret>>

(***************************************************************************)
(* main.rs:83-115: one iteration of the loop over node_receipts            *)
(***************************************************************************)
AggregateNode ==
    /\ pc = "aggregate"
    /\ todo # {}
    /\ \E node_id \in {First(todo)} :
       \E receipts_parsed \in {InsertAll(node_receipts[node_id], 1, EmptyMap, build)} :
           IF IsOk(receipts_parsed)
           THEN /\ node_results' =
                       Put(node_results, node_id, NodeResultOf(receipts_parsed.v))
                /\ todo' = todo \ {node_id}
                /\ UNCHANGED <<pc, exit>>
           ELSE /\ exit' = [kind |-> "panic", msg |-> receipts_parsed.panic]
                /\ pc' = "done"
                /\ UNCHANGED <<node_results, todo>>
    /\ UNCHANGED <<build, dir_idx, n_read, node_receipts, stdout, call, ret>>

(***************************************************************************)
(* main.rs:117-138: the report                                             *)
(***************************************************************************)
PrintHeader ==
    /\ pc = "aggregate"
    /\ todo = {}
    /\ stdout' = Append(stdout, Header)
    /\ pc' = "report"
    /\ todo' = DOMAIN node_results
    /\ UNCHANGED <<build, dir_idx, n_read, node_receipts, node_results, exit, call, ret>>

\* one iteration of the loop over node_results
ReportNode ==
    /\ pc = "report"
    /\ todo # {}
    /\ \E node_id \in {First(todo)} :
       \E result \in {node_results[node_id]} :
           IF ~NodeResult_is_titan(result)
           THEN /\ todo' = todo \ {node_id}
                /\ UNCHANGED <<stdout, pc, exit>>
           ELSE \E row \in {Row(node_id, result, build)} :
                IF IsOk(row)
                THEN /\ stdout' = Append(stdout, row.v)
                     /\ todo' = todo \ {node_id}
                     /\ UNCHANGED <<pc, exit>>
                ELSE /\ exit' = [kind |-> "panic", msg |-> row.panic]
                     /\ pc' = "done"
                     /\ UNCHANGED <<stdout, todo>>
    /\ UNCHANGED <<build, dir_idx, n_read, node_receipts, node_results, call, ret>>

\* Ok(())
Finish ==
    /\ pc = "report"
    /\ todo = {}
    /\ exit' = [kind |-> "ok", msg |-> ""]
    /\ pc' = "done"
    /\ UNCHANGED <<build, dir_idx, n_read, node_receipts, todo, node_results,
                   stdout, call, ret>>

Next ==
    \/ \E receipt \in Receipts : ReadEntry(receipt)
    \/ ReadFails
    \/ EndOfDir
    \/ AggregateNode
    \/ PrintHeader
    \/ ReportNode
    \/ Finish

Spec == Init /\ [][Next]_vars

(***************************************************************************)
(* The functions of main.rs called on their own: a call is drawn from the  *)
(* inputs below and the function applied to it.                            *)
(***************************************************************************)
\* the largest measured uptime of a call, in half periods
MaxHalfPeriods == 3

\* 16384 compute units
BigUsage ==
    [cu |-> F64(FALSE, 16384, 1), su |-> F64(FALSE, 0, 1),
     nu |-> F64(FALSE, 0, 1), ip |-> F64(FALSE, 0, 1)]

Percentages ==
    {w * PERCENTAGE_PRECISION + f : w \in {0, 1, 99}, f \in {0, 5, 50, 500, 999}}
        \cup {100 * PERCENTAGE_PRECISION}

Differences ==
    {d \in {I64(neg, mag) : neg \in BOOLEAN,
                            mag \in {<<>>, <<1>>, FromInt(TFT_PRECISION - 1),
                                     FromInt(TFT_PRECISION), FromInt(TFT_PRECISION + 1),
                                     Sub(I64_MIN_MAG, <<1>>), I64_MIN_MAG}} :
        FitsI64(d)}

PeriodResults ==
    {[DefaultNodePeriodResult EXCEPT !.farming_policy = policy, !.is_certified = c] :
        policy \in 0..MaxPolicy, c \in BOOLEAN}

RewardReceipts ==
    {MintingReceipt(1, 2, "DIY", FromInt(h * (STANDARD_PERIOD_DURATION \div 2)),
                    FromInt(price), usage, <<>>) :
        h \in 0..MaxHalfPeriods, price \in {0, 50, 100},
        usage \in {NoUsage, SomeUsage, BigUsage}}

FnInit ==
    /\ build \in Builds
    /\ pc = "call"
    /\ dir_idx = 1
    /\ n_read = 0
    /\ node_receipts = EmptyMap
    /\ todo = {}
    /\ node_results = EmptyMap
    /\ stdout = <<>>
    /\ exit = Running
    /\ ret = Pending
    /\ \/ \E p \in Percentages : call = [fn |-> "format_percentage", arg |-> p]
       \/ \E d \in Differences : call = [fn |-> "format_diff_tft", arg |-> d]
       \/ \E r \in PeriodResults : call = [fn |-> "is_titan", arg |-> r]
       \/ \E receipt \in RewardReceipts :
              call = [fn |-> "calculate_expected_titan_reward", arg |-> receipt]

Call_format_percentage ==
    /\ call.fn = "format_percentage"
    /\ ret.panic = Pending.panic
    /\ ret' = Ok(format_percentage(call.arg))
    /\ UNCHANGED <<main_vars, call>>

Call_format_diff_tft ==
    /\ call.fn = "format_diff_tft"
    /\ ret.panic = Pending.panic
    /\ ret' = format_diff_tft(call.arg, build)
    /\ UNCHANGED <<main_vars, call>>

Call_is_titan ==
    /\ call.fn = "is_titan"
    /\ ret.panic = Pending.panic
    /\ ret' = Ok(NodePeriodResult_is_titan(call.arg))
    /\ UNCHANGED <<main_vars, call>>

Call_calculate_expected_titan_reward ==
    /\ call.fn = "calculate_expected_titan_reward"
    /\ ret.panic = Pending.panic
    /\ ret' = calculate_expected_titan_reward(call.arg, build)
    /\ UNCHANGED <<main_vars, call>>

FnNext ==
    \/ Call_format_percentage
    \/ Call_format_diff_tft
    \/ Call_is_titan
    \/ Call_calculate_expected_titan_reward

FnSpec == FnInit /\ [][FnNext]_vars

(***************************************************************************)
(* Properties of the functions                                             *)
(***************************************************************************)
Returned(fn) == call.fn = fn /\ ret.panic # Pending.panic

\* C4: every negative difference is rendered with a minus sign, the integer
\* part |d| / 10,000,000 and the seven digits of |d| % 10,000,000; -1 is
\* rendered as "-0.0000001".
C4_NegativeDifferenceKeepsSign ==
    (Returned("format_diff_tft") /\ call.arg.neg /\ call.arg.mag # I64_MIN_MAG) =>
        /\ ret = Ok("-" \o Display(Div(call.arg.mag, FromInt(TFT_PRECISION)))
                        \o "." \o DisplayPadded(Mod(call.arg.mag, FromInt(TFT_PRECISION)), 7))
        /\ call.arg.mag = <<1>> => ret = Ok("-0.0000001")

\* C5: a percentage is rendered as p / 1000, a dot, p % 1000 padded with
\* zeros to three digits, and a percent sign; 99005 is rendered as "99.005%"
\* and 0 as "0.000%".
C5_ThreeFractionalDigits ==
    Returned("format_percentage") =>
        /\ ret = Ok(Display(FromInt(call.arg \div 1000)) \o "."
                        \o DisplayPadded(FromInt(call.arg % 1000), 3) \o "%")
        /\ call.arg = 99005 => ret = Ok("99.005%")
        /\ call.arg = 0 => ret = Ok("0.000%")

\* C7: the tier predicate of a period is true exactly when the farming
\* policy is 2, or is 1 and the node is certified; it is false for policy 1
\* without certification, for every other policy and for the default slot.
C7_TierPredicate ==
    Returned("is_titan") =>
        LET policy    == call.arg.farming_policy
            certified == call.arg.is_certified
        IN  /\ ret \in {Ok(TRUE), Ok(FALSE)}
            /\ policy = 2 => ret = Ok(TRUE)
            /\ (policy = 1 /\ certified) => ret = Ok(TRUE)
            /\ (policy = 1 /\ ~certified) => ret = Ok(FALSE)
            /\ policy \notin {1, 2} => ret = Ok(FALSE)
            /\ call.arg = DefaultNodePeriodResult => ret = Ok(FALSE)

\* the predicate has answered for a certified node of policy 1 and the answer
\* is true
C7_Witness ==
    /\ Returned("is_titan")
    /\ call.arg.farming_policy = 1
    /\ call.arg.is_certified
    /\ ret = Ok(TRUE)

\* trunc(q * 10^7) of a quantity that is not negative
TruncScaled(q) == Div(Mul(q.num, FromInt(TFT_PRECISION)), q.den)

\* floor(floor((trunc(cu*10^7)*3000 + trunc(su*10^7)*1250 + trunc(nu*10^7)*38
\*   + trunc(ip*10^7)*6) / price) * measured_uptime / standard period), in
\* exact arithmetic
ExactReward(receipt) ==
    LET full_musd ==
            Add(Add(Add(Mul(TruncScaled(receipt.cloud_units.cu), FromInt(3000)),
                        Mul(TruncScaled(receipt.cloud_units.su), FromInt(1250))),
                    Mul(TruncScaled(receipt.cloud_units.nu), FromInt(38))),
                Mul(TruncScaled(receipt.resource_utilization.ip), FromInt(6)))
        full_tft == Div(full_musd, receipt.tft_connection_price)
    IN  Div(Mul(full_tft, receipt.measured_uptime), FromInt(STANDARD_PERIOD_DURATION))

\* C8: for a receipt with a connection price above zero the expected reward
\* is the value of the formula above, and it does not decrease when the
\* measured uptime grows with the other fields fixed.
C8_ExpectedRewardFormula ==
    (Returned("calculate_expected_titan_reward")
        /\ call.arg.tft_connection_price # <<>>) =>
        /\ ret = Ok(ExactReward(call.arg))
        /\ \A less \in RewardReceipts :
               (/\ [less EXCEPT !.measured_uptime = <<>>]
                       = [call.arg EXCEPT !.measured_uptime = <<>>]
                /\ Leq(less.measured_uptime, call.arg.measured_uptime))
                   => LET smaller == calculate_expected_titan_reward(less, build)
                      IN  IsOk(smaller) /\ Leq(smaller.v, ret.v)

(***************************************************************************)
(* Properties of a run of main                                             *)
(***************************************************************************)
\* the entries of node n read from the directory of the given period
ReceiptsFor(n, period) ==
    SelectSeq(node_receipts[n], LAMBDA e : e[1] = period)

\* more than one receipt was read for some (node, period) pair
HasDuplicate ==
    \E n \in DOMAIN node_receipts :
        \E i, j \in DOMAIN node_receipts[n] :
            i < j /\ node_receipts[n][i][1] = node_receipts[n][j][1]

\* the lines printed after the header
Rows == [i \in 1..(Len(stdout) - 1) |-> stdout[i + 1]]

\* some one of the six slots satisfies the tier predicate
SomeSlotTitan(result) ==
    \E k \in 1..6 : NodePeriodResult_is_titan(Slots(result)[k])

HasRow(n) == \E i \in DOMAIN Rows : Rows[i][1] = Display(FromInt(n))

\* C1: when more than one receipt is read for the same (node, period) pair
\* the run fails; it never ends successfully.
C1_DuplicateReceiptFailsRun ==
    HasDuplicate => exit.kind # "ok"

\* C2: a receipt with a zero connection price ends in a reported error; the
\* run never traps on a division by zero.
C2_ZeroPriceNeverTraps ==
    exit.kind = "panic" => exit.msg # "attempt to divide by zero"

\* C3: the uptime percentage stored in a slot is at most 100 * 1000, and a
\* receipt whose measured uptime is at or above the standard period duration
\* is stored as exactly 100 * 1000; the computation never overflows.
C3_UptimeIsClamped ==
    /\ exit.kind = "panic" => exit.msg # "attempt to multiply with overflow"
    /\ \A n \in DOMAIN node_results : \A k \in DOMAIN DIR_NAMES :
           LET slot == Slots(node_results[n])[k]
               rs   == ReceiptsFor(n, PeriodOfDir[k])
           IN  /\ slot.uptime_percentage <= 100 * PERCENTAGE_PRECISION
               /\ (rs # <<>> /\ Leq(FromInt(STANDARD_PERIOD_DURATION),
                                    rs[Len(rs)][2].measured_uptime))
                      => slot.uptime_percentage = 100 * PERCENTAGE_PRECISION

\* C6: a line is printed for a node if and only if one of its six slots is
\* titan, and the line of a node has the columns of all six periods.
C6_RowIffSomeSlotTitan ==
    /\ stdout # <<>> => stdout[1] = Header
    /\ \A i \in DOMAIN Rows :
           /\ Len(Rows[i]) = Len(Header)
           /\ \E n \in DOMAIN node_results :
                  /\ Rows[i][1] = Display(FromInt(n))
                  /\ SomeSlotTitan(node_results[n])
                  /\ \A k \in 1..6 :
                         SubSeq(Rows[i], 4 * k - 2, 4 * k + 1)
                             = PeriodColumns(Slots(node_results[n])[k])
    /\ exit.kind = "ok" =>
           \A n \in DOMAIN node_results :
               SomeSlotTitan(node_results[n]) <=> HasRow(n)

\* a finished run in which a node that is titan in one period only has its
\* line and a node that is titan in no period has none
C6_Witness ==
    /\ exit.kind = "ok"
    /\ \E n \in DOMAIN node_results :
           /\ Cardinality({k \in 1..6 :
                  NodePeriodResult_is_titan(Slots(node_results[n])[k])}) = 1
           /\ HasRow(n)
    /\ \E n \in DOMAIN node_results :
           ~SomeSlotTitan(node_results[n]) /\ ~HasRow(n)

\* C9: no partial report: a run that fails has written nothing, neither the
\* header nor a line.
C9_NoPartialReport ==
    exit.kind \in {"err", "panic"} => stdout = <<>>

\* C10: every slot of a node holds the result derived from the node's receipt
\* for the period of the slot, or the neutral default (policy 0, uptime 0,
\* expected 0, actual 0, not certified) when the node has no such receipt; no
\* receipt is filed under another node.
C10_SlotsFromOwnReceipts ==
    /\ \A n \in DOMAIN node_receipts : \A i \in DOMAIN node_receipts[n] :
           node_receipts[n][i][2].node_id = n
    /\ \A n \in DOMAIN node_results : \A k \in DOMAIN DIR_NAMES :
           LET rs == ReceiptsFor(n, PeriodOfDir[k])
           IN  Slots(node_results[n])[k] =
                   IF rs = <<>>
                   THEN [farming_policy |-> 0, uptime_percentage |-> 0,
                         expected_payout |-> <<>>, actual_payout |-> <<>>,
                         is_certified |-> FALSE]
                   ELSE NodePeriodResultOf(rs[Len(rs)][2], build).v

\* two nodes aggregated, one of them with a receipt for period 57 only
C10_Witness ==
    /\ Cardinality(DOMAIN node_results) = 2
    /\ \E n \in DOMAIN node_results :
           /\ ReceiptsFor(n, 57) # <<>>
           /\ node_results[n].p57 # DefaultNodePeriodResult
           /\ \A k \in 1..5 : Slots(node_results[n])[k] = DefaultNodePeriodResult
====
